---- MODULE Spec2Model ----
(***************************************************************************)
(* A model of src/app.py, the book-translation pipeline: the page-joining  *)
(* loop combine_text_with_continuity, the chunked translate_text, the OCR  *)
(* batch process_all_images, the image-to-PDF merge create_original_pdf    *)
(* and the Streamlit script main() that sequences them over flat files.    *)
(*                                                                         *)
(* A Python str is a sequence of one-character strings.  The full-width    *)
(* ideographic period (U+3002) is written "U+3002".                        *)
(***************************************************************************)
EXTENDS Integers, Sequences, FiniteSets, TLC

VARIABLES
    pc,                 \* position of the running code
    pages_data,         \* combine_text_with_continuity: its argument
    page_i,             \*   index of the next record of the for loop
    combined,           \*   the accumulator
    text,               \* translate_text: its argument
    chunk_size,         \*   the window size (5000 in the source, small here)
    chunks,             \*   the list of windows
    chunk_i,            \*   index of the next chunk of the for loop
    translated_chunks,  \*   translations appended so far
    translated,         \*   the returned string
    backend_log,        \*   progress reports, backend calls and answers, in time order
    photos,             \* the files of PHOTOS_DIR
    image_files,        \* the sorted list of image paths main() builds
    ocr_i,              \* process_all_images: index of the next image
    all_text,           \*   the records appended so far
    ocr_log,            \*   progress reports and finished extractions, in time order
    pdf_i,              \* create_original_pdf: index of the next image
    temp_pdfs,          \*   the temporary paths appended so far
    merger,             \*   what the PdfMerger holds
    unlink_i,           \*   index of the next temporary to unlink
    temp_files,         \* the temp_<stem>.pdf files in OUTPUT_DIR
    disk,               \* the four output files of OUTPUT_DIR
    disk0,              \* main(): the output files as the running script run found them
    clicked,            \*   the button whose click started the run ("none": a plain rerun)
    rendered,           \*   the buttons on the page
    messages            \*   what the run has written to the page, in order

joinVars == <<pages_data, page_i, combined>>
translateVars == <<text, chunk_size, chunks, chunk_i, translated_chunks, translated, backend_log>>
ocrVars == <<ocr_i, all_text, ocr_log>>
pdfVars == <<pdf_i, temp_pdfs, merger, unlink_i>>
inputVars == <<photos, image_files>>
diskVars == <<temp_files, disk>>
uiVars == <<disk0, clicked, rendered, messages>>
vars == <<pc, joinVars, translateVars, ocrVars, pdfVars, inputVars, diskVars, uiVars>>

(***************************************************************************)
(* Bounds of the model.                                                    *)
(***************************************************************************)
MaxPages == 3          \* records in one input of the joiner
MaxTotalLen == 3       \* characters in one input of the joiner, over all records
MaxTextLen == 4        \* characters of a text handed to translate_text
MaxChunkSize == 2      \* window sizes 1..MaxChunkSize
MaxPhotos == 2         \* files in PHOTOS_DIR

(***************************************************************************)
(* Characters and strings.                                                 *)
(***************************************************************************)
\* the characters of '.!?<U+3002>' tested at app.py:66
TerminalPunct == {".", "!", "?", "U+3002"}

\* what str.strip() removes: whitespace, here the blank and the line feed
Whitespace == {" ", "\n"}

\* the characters page texts are made of: a letter, a blank, and three of
\* the marks (an ASCII full stop, a question mark, the ideographic full stop)
Alphabet == {"a", " ", ".", "?", "U+3002"}

RECURSIVE StringsUpTo(_, _)
StringsUpTo(A, n) ==
    IF n = 0 THEN {<<>>}
    ELSE LET shorter == StringsUpTo(A, n - 1)
         IN shorter \cup {Append(s, c) : s \in {t \in shorter : Len(t) = n - 1}, c \in A}

Last(s) == s[Len(s)]
Front(s) == SubSeq(s, 1, Len(s) - 1)

\* str.lstrip() / str.rstrip() / str.strip() with no argument
RECURSIVE LStrip(_)
LStrip(s) == IF s # <<>> /\ Head(s) \in Whitespace THEN LStrip(Tail(s)) ELSE s

RECURSIVE RStrip(_)
RStrip(s) == IF s # <<>> /\ Last(s) \in Whitespace THEN RStrip(Front(s)) ELSE s

Strip(s) == RStrip(LStrip(s))

(***************************************************************************)
(* combine_text_with_continuity (app.py:58-71)                             *)
(***************************************************************************)
\* app.py:66, the condition of the if
NeedsSpace(acc) == acc # <<>> /\ ~(Last(acc) \in TerminalPunct)

\* app.py:63-69, one iteration of the loop: the accumulator after `page`
\* variant: the text is appended without strip()
CombineIterNoStrip(acc, page) ==
    (IF NeedsSpace(acc) THEN acc \o <<" ">> ELSE acc) \o page.text
CombineIter(acc, page) ==
    LET stripped == Strip(page.text)
        spaced == IF NeedsSpace(acc) THEN acc \o <<" ">> ELSE acc
    IN spaced \o stripped

\* the whole function, as the loop computes it
RECURSIVE combine_text_with_continuity(_)
combine_text_with_continuity(pd) ==
    IF pd = <<>> THEN <<>>
    ELSE CombineIter(combine_text_with_continuity(Front(pd)), Last(pd))

\* app.py:60
CombineEnter(pd) ==
    /\ pages_data' = pd
    /\ page_i' = 1
    /\ combined' = <<>>
    /\ pc' = "combine_loop"

\* app.py:62-69
CombineStep ==
    /\ pc = "combine_loop"
    /\ page_i <= Len(pages_data)
    /\ combined' = CombineIter(combined, pages_data[page_i])
    /\ page_i' = page_i + 1
    /\ UNCHANGED <<pc, pages_data, translateVars, ocrVars, pdfVars, inputVars, diskVars, uiVars>>

\* app.py:71
CombineReturn ==
    /\ pc = "combine_loop"
    /\ page_i > Len(pages_data)
    /\ pc' = "combine_return"
    /\ UNCHANGED <<joinVars, translateVars, ocrVars, pdfVars, inputVars, diskVars, uiVars>>

\* OCR records as process_all_images builds them (app.py:50-54) from texts
Records(texts) ==
    [i \in 1..Len(texts) |-> [page |-> i, filename |-> [stem |-> i, ext |-> "jpg"], text |-> texts[i]]]

\* sequences of at most p texts with at most l characters in all
RECURSIVE TextSeqs(_, _)
TextSeqs(p, l) ==
    IF p = 0 THEN {<<>>}
    ELSE {<<>>} \cup
         UNION {{<<t>> \o rest : rest \in TextSeqs(p - 1, l - Len(t))}
                : t \in StringsUpTo(Alphabet, l)}

JoinIdle == pages_data = <<>> /\ page_i = 1 /\ combined = <<>>
TranslateIdle ==
    /\ text = <<>> /\ chunk_size = 1 /\ chunks = <<>> /\ chunk_i = 1
    /\ translated_chunks = <<>> /\ translated = <<>> /\ backend_log = <<>>

OcrIdle == ocr_i = 1 /\ all_text = <<>> /\ ocr_log = <<>>
PdfIdle == pdf_i = 1 /\ temp_pdfs = <<>> /\ merger = <<>> /\ unlink_i = 1
NoPhotos == photos = {} /\ image_files = <<>>

\* an output file that does not exist
Absent == [exists |-> FALSE, data |-> <<>>]
File(d) == [exists |-> TRUE, data |-> d]

\* OUTPUT_DIR right after app.py:28 on a fresh directory
NoFiles == [ocr_results |-> Absent, translation |-> Absent,
            original_book |-> Absent, translated_book |-> Absent]
EmptyDisk == temp_files = {} /\ disk = NoFiles
UiIdle == disk0 = NoFiles /\ clicked = "none" /\ rendered = {} /\ messages = <<>>

InitJoin ==
    /\ OcrIdle /\ PdfIdle /\ NoPhotos /\ EmptyDisk /\ UiIdle
    /\ pc = "combine_loop"
    /\ pages_data \in {Records(ts) : ts \in TextSeqs(MaxPages, MaxTotalLen)}
    /\ page_i = 1
    /\ combined = <<>>
    /\ TranslateIdle

NextJoin == CombineStep \/ CombineReturn

SpecJoin == InitJoin /\ [][NextJoin]_vars

(***************************************************************************)
(* translate_text (app.py:73-87)                                           *)
(***************************************************************************)
Min(a, b) == IF a < b THEN a ELSE b

\* the Python slice s[i:j] for 0 <= i <= j: it stops at the end of s
Slice(s, i, j) == SubSeq(s, i + 1, Min(j, Len(s)))

\* len(range(0, n, k)): the number of starts 0, k, 2k, ... below n
\* variant: a last, shorter window is not counted
RangeLenFloor(n, k) == n \div k
RangeLen(n, k) == (n + k - 1) \div k

\* app.py:77, [text[i:i+chunk_size] for i in range(0, len(text), chunk_size)]
Chunks(s, k) ==
    [j \in 1..RangeLen(Len(s), k) |-> Slice(s, (j - 1) * k, (j - 1) * k + k)]

\* sep.join(parts)
\* variant: the separator also follows the last part
RECURSIVE JoinTrailing(_, _)
JoinTrailing(sep, parts) ==
    IF parts = <<>> THEN <<>> ELSE Head(parts) \o sep \o JoinTrailing(sep, Tail(parts))
RECURSIVE Join(_, _)
Join(sep, parts) ==
    IF parts = <<>> THEN <<>>
    ELSE IF Len(parts) = 1 THEN Head(parts)
    ELSE Head(parts) \o sep \o Join(sep, Tail(parts))

\* result.text of translator.translate(chunk): the backend is a function of
\* the chunk, here letter by letter, with marks and whitespace kept
BackendText(chunk) == [i \in 1..Len(chunk) |-> IF chunk[i] = "a" THEN "x" ELSE chunk[i]]

\* the texts and window sizes translate_text is tried on
TranslateAlphabet == {"a", " ", "."}

\* app.py:76-79
TranslateEnter(t, k) ==
    /\ text' = t
    /\ chunk_size' = k
    /\ chunks' = Chunks(t, k)
    /\ chunk_i' = 1
    /\ translated_chunks' = <<>>
    /\ translated' = <<>>
    /\ backend_log' = <<>>
    /\ pc' = "translate_loop"

\* app.py:80-84, the progress callback, then the request goes out
TranslateCall ==
    /\ pc = "translate_loop"
    /\ chunk_i <= Len(chunks)
    /\ backend_log' = backend_log \o
          << [kind |-> "progress", i |-> chunk_i, data |-> <<chunk_i, Len(chunks)>>],
             [kind |-> "call", i |-> chunk_i, data |-> chunks[chunk_i]] >>
    /\ pc' = "translate_wait"
    /\ UNCHANGED <<ocrVars, pdfVars, inputVars, diskVars, uiVars, joinVars, text, chunk_size, chunks, chunk_i, translated_chunks, translated>>

\* app.py:84-85, the backend answers and the translation is appended
\* variant: the translations so far are saved after every chunk
TranslateAnswerSaving ==
    /\ pc = "translate_wait"
    /\ LET result == BackendText(chunks[chunk_i])
       IN /\ backend_log' = Append(backend_log, [kind |-> "return", i |-> chunk_i, data |-> result])
          /\ translated_chunks' = Append(translated_chunks, result)
          /\ disk' = [disk EXCEPT !.translation = File(Join(<<" ">>, translated_chunks'))]
    /\ chunk_i' = chunk_i + 1
    /\ pc' = "translate_loop"
    /\ UNCHANGED <<ocrVars, pdfVars, inputVars, temp_files, uiVars, joinVars, text, chunk_size, chunks, translated>>
TranslateAnswer ==
    /\ pc = "translate_wait"
    /\ LET result == BackendText(chunks[chunk_i])
       IN /\ backend_log' = Append(backend_log, [kind |-> "return", i |-> chunk_i, data |-> result])
          /\ translated_chunks' = Append(translated_chunks, result)
    /\ chunk_i' = chunk_i + 1
    /\ pc' = "translate_loop"
    /\ UNCHANGED <<ocrVars, pdfVars, inputVars, diskVars, uiVars, joinVars, text, chunk_size, chunks, translated>>

\* app.py:84, the backend call raises: the exception leaves translate_text
TranslateRaise ==
    /\ pc = "translate_wait"
    /\ backend_log' = Append(backend_log, [kind |-> "raise", i |-> chunk_i, data |-> <<>>])
    /\ pc' = "translate_raise"
    /\ UNCHANGED <<ocrVars, pdfVars, inputVars, diskVars, uiVars, joinVars, text, chunk_size, chunks, chunk_i, translated_chunks, translated>>

\* app.py:87
TranslateReturn ==
    /\ pc = "translate_loop"
    /\ chunk_i > Len(chunks)
    /\ translated' = Join(<<" ">>, translated_chunks)
    /\ pc' = "translate_return"
    /\ UNCHANGED <<ocrVars, pdfVars, inputVars, diskVars, uiVars, joinVars, text, chunk_size, chunks, chunk_i, translated_chunks, backend_log>>

InitTranslate ==
    /\ JoinIdle /\ OcrIdle /\ PdfIdle /\ NoPhotos /\ EmptyDisk /\ UiIdle
    /\ \E t \in StringsUpTo(TranslateAlphabet, MaxTextLen), k \in 1..MaxChunkSize :
          /\ text = t
          /\ chunk_size = k
          /\ chunks = Chunks(t, k)
    /\ chunk_i = 1
    /\ translated_chunks = <<>>
    /\ translated = <<>>
    /\ backend_log = <<>>
    /\ pc = "translate_loop"

NextTranslate == TranslateCall \/ TranslateAnswer \/ TranslateRaise \/ TranslateReturn

SpecTranslate == InitTranslate /\ [][NextTranslate]_vars

(***************************************************************************)
(* The image list (app.py:138-143)                                         *)
(***************************************************************************)
\* the extensions of the six glob patterns
ImagePatterns == {"jpg", "jpeg", "png", "JPG", "JPEG", "PNG"}

\* the stems and extensions of the files PHOTOS_DIR is tried with
DirStems == {1, 2}
DirExts == {"jpg", "png"}

\* file names in the order sorted() gives paths: by stem, then by extension
ExtRank(e) ==
    CASE e = "JPEG" -> 1 [] e = "JPG" -> 2 [] e = "PNG" -> 3
      [] e = "jpeg" -> 4 [] e = "jpg" -> 5 [] e = "png" -> 6 [] OTHER -> 7
Before(f, g) == f.stem < g.stem \/ (f.stem = g.stem /\ ExtRank(f.ext) < ExtRank(g.ext))

RECURSIVE Sorted(_)
Sorted(S) ==
    IF S = {} THEN <<>>
    ELSE LET first == CHOOSE f \in S : \A g \in S \ {f} : Before(f, g)
         IN <<first>> \o Sorted(S \ {first})

\* sorted(glob("*.jpg") + ... + glob("*.PNG"))
ImageFiles(dir) == Sorted({f \in dir : f.ext \in ImagePatterns})

\* the directories tried: at most MaxPhotos files named <stem>.<ext>
PhotoDirs ==
    {d \in SUBSET [stem : DirStems, ext : DirExts] : Cardinality(d) <= MaxPhotos}

(***************************************************************************)
(* ocr_image and process_all_images (app.py:30-56)                         *)
(***************************************************************************)
\* response.text_annotations as the backend may return it: the descriptions
OcrResponses == {<<>>, << <<"a", " ">>, <<"a">> >>}

\* app.py:37-41
ocr_image(texts) == IF texts # <<>> THEN texts[1] ELSE <<>>

\* app.py:45
OcrEnter ==
    /\ ocr_i' = 1
    /\ all_text' = <<>>
    /\ ocr_log' = <<>>
    /\ pc' = "ocr_loop"

\* app.py:48, progress_bar.progress((idx + 1) / len(image_files))
OcrProgress ==
    /\ pc = "ocr_loop"
    /\ ocr_i <= Len(image_files)
    /\ ocr_log' = Append(ocr_log, [kind |-> "progress", num |-> ocr_i, den |-> Len(image_files)])
    /\ pc' = "ocr_call"
    /\ UNCHANGED <<ocr_i, all_text, joinVars, translateVars, pdfVars, inputVars, diskVars, uiVars>>

\* app.py:49-54, the backend answers and the record is appended
OcrAnswer ==
    /\ pc = "ocr_call"
    /\ \E texts \in OcrResponses :
          all_text' = Append(all_text, [page |-> ocr_i,
                                        filename |-> image_files[ocr_i],
                                        text |-> ocr_image(texts)])
    /\ ocr_log' = Append(ocr_log, [kind |-> "extracted", num |-> ocr_i, den |-> Len(image_files)])
    /\ ocr_i' = ocr_i + 1
    /\ pc' = "ocr_loop"
    /\ UNCHANGED <<joinVars, translateVars, pdfVars, inputVars, diskVars, uiVars>>

\* app.py:32-36, reading the image or the backend call raises
OcrRaise ==
    /\ pc = "ocr_call"
    /\ ocr_log' = Append(ocr_log, [kind |-> "raise", num |-> ocr_i, den |-> Len(image_files)])
    /\ pc' = "ocr_raise"
    /\ UNCHANGED <<ocr_i, all_text, joinVars, translateVars, pdfVars, inputVars, diskVars, uiVars>>

\* app.py:56
OcrReturn ==
    /\ pc = "ocr_loop"
    /\ ocr_i > Len(image_files)
    /\ pc' = "ocr_return"
    /\ UNCHANGED <<ocrVars, joinVars, translateVars, pdfVars, inputVars, diskVars, uiVars>>

InitOcr ==
    /\ JoinIdle /\ TranslateIdle /\ PdfIdle /\ EmptyDisk /\ OcrIdle /\ UiIdle
    /\ photos \in PhotoDirs
    /\ image_files = ImageFiles(photos)
    /\ image_files # <<>>
    /\ pc = "ocr_loop"

NextOcr == OcrProgress \/ OcrAnswer \/ OcrRaise \/ OcrReturn

SpecOcr == InitOcr /\ [][NextOcr]_vars

(***************************************************************************)
(* create_original_pdf (app.py:89-112)                                     *)
(***************************************************************************)
\* app.py:102, the temporary of an image: OUTPUT_DIR / temp_<stem>.pdf
TempPdf(img_file) == img_file.stem

\* app.py:91-92
PdfEnter ==
    /\ pdf_i' = 1
    /\ temp_pdfs' = <<>>
    /\ merger' = <<>>
    /\ unlink_i' = 1
    /\ pc' = "pdf_loop"

\* app.py:95-105, one image: opened, saved as its temporary, appended
PdfImage ==
    /\ pc = "pdf_loop"
    /\ pdf_i <= Len(image_files)
    /\ LET temp_pdf == TempPdf(image_files[pdf_i])
       IN /\ temp_files' = temp_files \cup {temp_pdf}
          /\ temp_pdfs' = Append(temp_pdfs, temp_pdf)
          /\ merger' = Append(merger, image_files[pdf_i])
    /\ pdf_i' = pdf_i + 1
    /\ UNCHANGED <<pc, unlink_i, disk, joinVars, translateVars, ocrVars, inputVars, uiVars>>

\* app.py:95-105, opening, converting, saving or appending raises; a save that
\* fails may have created the temporary already
PdfImageRaise ==
    /\ pc = "pdf_loop"
    /\ pdf_i <= Len(image_files)
    /\ \E created \in BOOLEAN :
          temp_files' = IF created THEN temp_files \cup {TempPdf(image_files[pdf_i])}
                        ELSE temp_files
    /\ pc' = "pdf_raise"
    /\ UNCHANGED <<pdfVars, disk, joinVars, translateVars, ocrVars, inputVars, uiVars>>

\* app.py:107-108
PdfWrite ==
    /\ pc = "pdf_loop"
    /\ pdf_i > Len(image_files)
    /\ disk' = [disk EXCEPT !.original_book = File(merger)]
    /\ pc' = "pdf_cleanup"
    /\ UNCHANGED <<pdfVars, temp_files, joinVars, translateVars, ocrVars, inputVars, uiVars>>

\* app.py:111-112, one temp_pdf.unlink()
PdfUnlink ==
    /\ pc = "pdf_cleanup"
    /\ unlink_i <= Len(temp_pdfs)
    /\ temp_pdfs[unlink_i] \in temp_files
    /\ temp_files' = temp_files \ {temp_pdfs[unlink_i]}
    /\ unlink_i' = unlink_i + 1
    /\ UNCHANGED <<pc, pdf_i, temp_pdfs, merger, disk, joinVars, translateVars, ocrVars, inputVars, uiVars>>

\* app.py:112, unlink() of a path that is gone raises FileNotFoundError
PdfUnlinkRaise ==
    /\ pc = "pdf_cleanup"
    /\ unlink_i <= Len(temp_pdfs)
    /\ temp_pdfs[unlink_i] \notin temp_files
    /\ pc' = "pdf_unlink_raise"
    /\ UNCHANGED <<pdfVars, diskVars, joinVars, translateVars, ocrVars, inputVars, uiVars>>

\* the function returns after the last unlink
PdfReturn ==
    /\ pc = "pdf_cleanup"
    /\ unlink_i > Len(temp_pdfs)
    /\ pc' = "pdf_return"
    /\ UNCHANGED <<pdfVars, diskVars, joinVars, translateVars, ocrVars, inputVars, uiVars>>

\* OUTPUT_DIR may hold temporaries an earlier call left behind
InitPdf ==
    /\ JoinIdle /\ TranslateIdle /\ OcrIdle /\ PdfIdle /\ UiIdle
    /\ disk = NoFiles
    /\ temp_files \in SUBSET DirStems
    /\ photos \in PhotoDirs
    /\ image_files = ImageFiles(photos)
    /\ image_files # <<>>
    /\ pc = "pdf_loop"

NextPdf ==
    PdfImage \/ PdfImageRaise \/ PdfWrite \/ PdfUnlink \/ PdfUnlinkRaise \/ PdfReturn

SpecPdf == InitPdf /\ [][NextPdf]_vars

(***************************************************************************)
(* create_translated_pdf (app.py:114-129)                                  *)
(***************************************************************************)
\* s.split('\n\n'), with cur the piece being read
RECURSIVE SplitBlankLines(_, _)
SplitBlankLines(s, cur) ==
    IF s = <<>> THEN <<cur>>
    ELSE IF Len(s) >= 2 /\ s[1] = "\n" /\ s[2] = "\n"
         THEN <<cur>> \o SplitBlankLines(SubSeq(s, 3, Len(s)), <<>>)
         ELSE SplitBlankLines(Tail(s), Append(cur, Head(s)))

\* app.py:121-127, the story: one stripped Paragraph for each non-blank piece
RECURSIVE StoryOf(_)
StoryOf(paragraphs) ==
    IF paragraphs = <<>> THEN <<>>
    ELSE LET para == Strip(Head(paragraphs))
         IN (IF para # <<>> THEN <<para>> ELSE <<>>) \o StoryOf(Tail(paragraphs))

Story(translated_text) == StoryOf(SplitBlankLines(translated_text, <<>>))

(***************************************************************************)
(* main (app.py:131-233): one run of the script for each user interaction  *)
(***************************************************************************)
Say(m) == messages' = Append(messages, m)

\* app.py:190 and app.py:222, the file checks that guard the two buttons
\* variant: the button is offered without the file check
OffersAlways == TRUE
OffersTranslate == disk.ocr_results.exists
OffersPdf == disk.translation.exists

\* when a run of the script ends, the locals of its calls are gone
EndRun ==
    /\ pages_data' = <<>> /\ page_i' = 1 /\ combined' = <<>>
    /\ ocr_i' = 1 /\ all_text' = <<>> /\ ocr_log' = <<>>
    /\ pdf_i' = 1 /\ temp_pdfs' = <<>> /\ merger' = <<>> /\ unlink_i' = 1
    /\ text' = <<>> /\ chunks' = <<>> /\ chunk_i' = 1
    /\ translated_chunks' = <<>> /\ translated' = <<>> /\ backend_log' = <<>>
    /\ UNCHANGED chunk_size
    /\ pc' = "idle"

\* app.py:131-157: a click on a button of the page, or a plain reload, reruns
\* the script, which lists the images, and returns when there are none
MainLoad ==
    /\ pc = "idle"
    /\ \E c \in {"none"} \cup rendered : clicked' = c
    /\ rendered' = {}
    /\ disk0' = disk
    /\ image_files' = ImageFiles(photos)
    /\ IF image_files' = <<>>
       THEN messages' = <<"no_images">> /\ pc' = "idle"
       ELSE messages' = <<"found">> /\ pc' = "step2"
    /\ UNCHANGED <<photos, diskVars, joinVars, translateVars, ocrVars, pdfVars>>

\* app.py:161-164
MainStep2 ==
    /\ pc = "step2"
    /\ rendered' = rendered \cup {"original"}
    /\ IF clicked = "original" THEN PdfEnter ELSE pc' = "step3" /\ UNCHANGED pdfVars
    /\ UNCHANGED <<disk0, clicked, messages, inputVars, diskVars, joinVars, translateVars, ocrVars>>

\* app.py:165
MainAfterPdf ==
    /\ pc = "pdf_return"
    /\ Say("original_created")
    /\ pc' = "step3"
    /\ UNCHANGED <<disk0, clicked, rendered, inputVars, diskVars, joinVars, translateVars, ocrVars, pdfVars>>

\* app.py:169-173
MainStep3 ==
    /\ pc = "step3"
    /\ rendered' = rendered \cup {"ocr"}
    /\ IF clicked = "ocr" THEN OcrEnter ELSE pc' = "step4" /\ UNCHANGED ocrVars
    /\ UNCHANGED <<disk0, clicked, messages, inputVars, diskVars, joinVars, translateVars, pdfVars>>

\* app.py:176-184
\* variant: the OCR stage writes the combined text to translation.txt
MainSaveOcrWrongFile ==
    /\ pc = "ocr_return"
    /\ disk' = [disk EXCEPT !.translation = File(combine_text_with_continuity(all_text))]
    /\ Say("ocr_complete")
    /\ pc' = "step4"
    /\ UNCHANGED <<disk0, clicked, rendered, temp_files, inputVars, joinVars, translateVars, ocrVars, pdfVars>>
MainSaveOcr ==
    /\ pc = "ocr_return"
    /\ disk' = [disk EXCEPT !.ocr_results = File(all_text)]
    /\ Say("ocr_complete")
    /\ pc' = "step4"
    /\ UNCHANGED <<disk0, clicked, rendered, temp_files, inputVars, joinVars, translateVars, ocrVars, pdfVars>>

\* app.py:189-197 and 215-216
MainStep4 ==
    /\ pc = "step4"
    /\ IF OffersTranslate
       THEN /\ rendered' = rendered \cup {"translate"}
            /\ UNCHANGED messages
            /\ IF clicked = "translate"
               THEN CombineEnter(disk.ocr_results.data)
               ELSE pc' = "step5" /\ UNCHANGED joinVars
       ELSE /\ Say("run_ocr_first")
            /\ pc' = "step5"
            /\ UNCHANGED <<rendered, joinVars>>
    /\ UNCHANGED <<disk0, clicked, inputVars, diskVars, translateVars, ocrVars, pdfVars>>

\* app.py:200-203
MainTranslate ==
    /\ pc = "combine_return"
    /\ TranslateEnter(combined, chunk_size)
    /\ UNCHANGED <<uiVars, inputVars, diskVars, joinVars, ocrVars, pdfVars>>

\* app.py:206-214
MainSaveTranslation ==
    /\ pc = "translate_return"
    /\ disk' = [disk EXCEPT !.translation = File(translated)]
    /\ Say("translation_complete")
    /\ pc' = "step5"
    /\ UNCHANGED <<disk0, clicked, rendered, temp_files, inputVars, joinVars, translateVars, ocrVars, pdfVars>>

\* app.py:221-233; the script ends here
MainStep5 ==
    /\ pc = "step5"
    /\ IF OffersPdf
       THEN /\ rendered' = rendered \cup {"translated"}
            /\ IF clicked = "translated"
               THEN \/ /\ disk' = [disk EXCEPT !.translated_book =
                                        File(Story(disk.translation.data))]
                       /\ Say("final_created")
                    \/ /\ Say("exception")
                       /\ UNCHANGED disk
               ELSE UNCHANGED <<disk, messages>>
       ELSE /\ Say("run_translation_first")
            /\ UNCHANGED <<rendered, disk>>
    /\ EndRun
    /\ UNCHANGED <<disk0, clicked, temp_files, inputVars>>

\* an exception that leaves main(): Streamlit shows it and the run ends
Raised == {"pdf_raise", "pdf_unlink_raise", "ocr_raise", "translate_raise"}
MainException ==
    /\ pc \in Raised
    /\ Say("exception")
    /\ EndRun
    /\ UNCHANGED <<disk0, clicked, rendered, inputVars, diskVars>>

InitMain ==
    /\ JoinIdle /\ OcrIdle /\ PdfIdle /\ EmptyDisk /\ UiIdle
    /\ text = <<>> /\ chunks = <<>> /\ chunk_i = 1
    /\ translated_chunks = <<>> /\ translated = <<>> /\ backend_log = <<>>
    /\ chunk_size = MaxChunkSize
    /\ photos \in PhotoDirs
    /\ image_files = <<>>
    /\ pc = "idle"

NextMain ==
    \/ MainLoad \/ MainStep2 \/ MainAfterPdf \/ MainStep3 \/ MainSaveOcr \/ MainStep4
    \/ MainTranslate \/ MainSaveTranslation \/ MainStep5 \/ MainException
    \/ NextPdf \/ NextOcr \/ NextJoin \/ NextTranslate

SpecMain == InitMain /\ [][NextMain]_vars

(***************************************************************************)
(* The properties checked.                                                 *)
(***************************************************************************)
TextsOf(pd) == [i \in 1..Len(pd) |-> pd[i].text]

\* strip, by the positions of the characters that are not whitespace
RefStrip(s) ==
    LET keep == {i \in 1..Len(s) : s[i] \notin {" ", "\n"}}
    IN IF keep = {} THEN <<>>
       ELSE SubSeq(s, CHOOSE i \in keep : \A j \in keep : i <= j,
                      CHOOSE i \in keep : \A j \in keep : i >= j)

RefTerminal == {".", "!", "?", "U+3002"}

\* the fold of claim C3 over a sequence of texts
RECURSIVE RefFold(_)
RefFold(ts) ==
    IF ts = <<>> THEN <<>>
    ELSE LET acc == RefFold(Front(ts))
             t == RefStrip(Last(ts))
         IN IF acc # <<>> /\ Last(acc) \notin RefTerminal
            THEN acc \o <<" ">> \o t
            ELSE acc \o t

\* parts with exactly one blank between consecutive parts
RECURSIVE RefSpaceJoin(_)
RefSpaceJoin(parts) ==
    IF parts = <<>> THEN <<>>
    ELSE IF Len(parts) = 1 THEN parts[1]
    ELSE RefSpaceJoin(Front(parts)) \o <<" ">> \o Last(parts)

RECURSIVE Flatten(_)
Flatten(parts) == IF parts = <<>> THEN <<>> ELSE Head(parts) \o Flatten(Tail(parts))

Without(seq, i) == SubSeq(seq, 1, i - 1) \o SubSeq(seq, i + 1, Len(seq))

TwoOpenTexts ==
    /\ Len(pages_data) = 2
    /\ RefStrip(pages_data[1].text) # <<>>
    /\ RefStrip(pages_data[2].text) # <<>>
    /\ Last(RefStrip(pages_data[1].text)) \notin RefTerminal

\* C3: at every point of the loop the accumulator is the reference fold
\* (strip; one blank when the accumulator is non-empty and does not end in
\* . ! ? or U+3002; append) of the records read so far, so the returned string is
\* the fold of all records; for two non-empty stripped texts whose first does
\* not end in such a mark it is first + " " + second.
C3_FoldEqualsReference ==
    pc \in {"combine_loop", "combine_return"} =>
        /\ combined = RefFold(SubSeq(TextsOf(pages_data), 1, page_i - 1))
        /\ pc = "combine_return" => combined = RefFold(TextsOf(pages_data))
        /\ (pc = "combine_return" /\ TwoOpenTexts) =>
               combined = RefStrip(pages_data[1].text) \o <<" ">> \o RefStrip(pages_data[2].text)

C3_Witness ==
    /\ pc = "combine_return"
    /\ TwoOpenTexts
    /\ RefStrip(pages_data[1].text) # pages_data[1].text
    /\ combined = RefStrip(pages_data[1].text) \o <<" ">> \o RefStrip(pages_data[2].text)

\* C4: when every record's stripped text ends in . ! ? or U+3002, the returned
\* string is the stripped texts joined with one blank between consecutive texts.
C4_AllTerminalSpaceJoined ==
    (/\ pc = "combine_return"
     /\ \A i \in 1..Len(pages_data) :
           /\ RefStrip(pages_data[i].text) # <<>>
           /\ Last(RefStrip(pages_data[i].text)) \in RefTerminal)
    => combined = RefSpaceJoin([i \in 1..Len(pages_data) |-> RefStrip(pages_data[i].text)])

\* C5: a record whose text is empty or only whitespace contributes nothing: the
\* returned string is the one returned for the records without it.
C5_EmptyRecordContributesNothing ==
    pc = "combine_return" =>
        \A i \in 1..Len(pages_data) :
            RefStrip(pages_data[i].text) = <<>>
            => combined = combine_text_with_continuity(Without(pages_data, i))

\* C6: the chunks of translate_text are contiguous windows of the text, each of
\* 1..chunk_size characters and all but the last of exactly chunk_size; in order
\* they concatenate to the text; the empty text has no chunk.
C6_ChunkingRoundTrip ==
    pc \in {"translate_loop", "translate_wait", "translate_raise", "translate_return"} =>
        /\ Flatten(chunks) = text
        /\ text = <<>> => chunks = <<>>
        /\ \A j \in 1..Len(chunks) :
              /\ Len(chunks[j]) >= 1
              /\ Len(chunks[j]) <= chunk_size
              /\ j < Len(chunks) => Len(chunks[j]) = chunk_size
              /\ chunks[j] = SubSeq(text, (j - 1) * chunk_size + 1,
                                          (j - 1) * chunk_size + Len(chunks[j]))

C6_Witness ==
    /\ pc = "translate_return"
    /\ Len(chunks) >= 2
    /\ Len(chunks[Len(chunks)]) < chunk_size

BackendTraffic == SelectSeq(backend_log, LAMBDA e : e.kind \in {"call", "return"})

\* C7: the backend is called once per chunk in increasing chunk order, each call
\* after the answer to the one before; on success every chunk was sent and the
\* returned string is the answers in chunk order with exactly one blank between
\* consecutive answers and none before or after.
C7_OrderedCallsAndJoin ==
    pc \in {"translate_loop", "translate_wait", "translate_raise", "translate_return"} =>
        LET io == BackendTraffic
        IN /\ \A p \in 1..Len(io) :
                 IF p % 2 = 1
                 THEN /\ io[p].kind = "call"
                      /\ io[p].i = (p + 1) \div 2
                      /\ io[p].data = chunks[(p + 1) \div 2]
                 ELSE /\ io[p].kind = "return"
                      /\ io[p].i = p \div 2
           /\ pc = "translate_return" =>
                 /\ Len(io) = 2 * Len(chunks)
                 /\ translated = RefSpaceJoin([j \in 1..Len(chunks) |-> io[2 * j].data])

C7_Witness ==
    /\ pc = "translate_return"
    /\ Len(chunks) >= 3
    /\ translated = RefSpaceJoin([j \in 1..Len(chunks) |-> BackendTraffic[2 * j].data])

ExtractedBefore(p) == Cardinality({q \in 1..(p - 1) : ocr_log[q].kind = "extracted"})

\* C8: pages are extracted in page order 1..n, and when a progress value k/n is
\* reported exactly k pages have completed extraction.
C8_ProgressAfterExtraction ==
    \A p \in 1..Len(ocr_log) :
        /\ ocr_log[p].kind = "extracted" => ocr_log[p].num = ExtractedBefore(p) + 1
        /\ ocr_log[p].kind = "progress" => ocr_log[p].num = ExtractedBefore(p)

\* C9: once create_original_pdf has ended, by returning or by raising, none of
\* the temporaries it created is left in the output directory, and the cleanup
\* itself has not failed.
C9_NoTemporaryOutlivesCall ==
    pc \in {"pdf_return", "pdf_raise", "pdf_unlink_raise"} =>
        /\ pc # "pdf_unlink_raise"
        /\ \A i \in 1..Len(temp_pdfs) : temp_pdfs[i] \notin temp_files

TranslateRunning ==
    {"combine_loop", "combine_return",
     "translate_loop", "translate_wait", "translate_raise", "translate_return"}
OcrRunning == {"ocr_loop", "ocr_call", "ocr_raise", "ocr_return"}

\* C1: the translate button is on the page, and the translation runs, only when
\* the OCR results file exists, and likewise the translated-PDF button and the
\* writing of the translated PDF only when the translation file exists; a stage
\* that finds its input file missing says so, writes no file and the script
\* goes on to what follows it.
C1_Gating ==
    /\ [](/\ pc \in TranslateRunning => disk.ocr_results.exists
          /\ "translate" \in rendered => disk.ocr_results.exists
          /\ "translated" \in rendered => disk.translation.exists)
    /\ [][
          /\ (pc = "step4" /\ ~disk.ocr_results.exists) =>
                (/\ messages' = Append(messages, "run_ocr_first")
                 /\ pc' = "step5"
                 /\ UNCHANGED diskVars)
          /\ (pc = "step5" /\ ~disk.translation.exists) =>
                (/\ messages' = Append(messages, "run_translation_first")
                 /\ pc' = "idle"
                 /\ UNCHANGED diskVars)
          /\ (disk'.translated_book # disk.translated_book) =>
                (/\ pc = "step5"
                 /\ clicked = "translated"
                 /\ disk.translation.exists)
       ]_vars

C1_Witness ==
    /\ pc = "idle"
    /\ messages = <<"found", "run_ocr_first", "run_translation_first">>
    /\ disk = NoFiles

\* C2: while the OCR action runs, and after it has failed, the OCR results file
\* is what it was when the run began; the same for the translate action and the
\* translation file; a failed backend call ends the run with the exception
\* shown, without another call and without a write.
C2_FailureAtomicity ==
    /\ [](/\ pc \in OcrRunning => disk.ocr_results = disk0.ocr_results
          /\ pc \in TranslateRunning => disk.translation = disk0.translation
          /\ (pc = "idle" /\ messages # <<>> /\ Last(messages) = "exception") =>
                (/\ (clicked = "ocr" => disk.ocr_results = disk0.ocr_results)
                 /\ (clicked = "translate" => disk.translation = disk0.translation)))
    /\ [][
          (pc \in {"ocr_raise", "translate_raise"}) =>
             (/\ pc' = "idle"
              /\ messages' = Append(messages, "exception")
              /\ UNCHANGED diskVars)
       ]_vars

C2_Witness ==
    /\ pc = "translate_raise"
    /\ translated_chunks # <<>>
    /\ disk.translation.exists
    /\ disk.translation.data # Join(<<" ">>, translated_chunks)

\* the button of the stage that owns an output file
Stage(f) ==
    CASE f = "original_book" -> "original"
      [] f = "ocr_results" -> "ocr"
      [] f = "translation" -> "translate"
      [] f = "translated_book" -> "translated"

\* C10: the translated PDF exists only if the translation file does, and that
\* only if the OCR results file does; and a run changes no output file but the
\* one of the stage whose button started it.
C10_ArtifactChain ==
    /\ disk.translated_book.exists => disk.translation.exists
    /\ disk.translation.exists => disk.ocr_results.exists
    /\ \A f \in DOMAIN disk : disk[f] # disk0[f] => clicked = Stage(f)

C10_Witness ==
    /\ pc = "idle"
    /\ disk.translated_book.exists
    /\ disk.original_book.exists

====
